---- MODULE Spec2Model ----
(***************************************************************************)
(* go-satnogs: a client of the SatNOGS DB read-only HTTP API.              *)
(*                                                                         *)
(* Strings are sequences of lexemes (a lexeme is a character or an         *)
(* indivisible piece such as "https:" or "%26"); string concatenation is   *)
(* \o and the empty string is <<>>.  The server and the network are the    *)
(* environment: every call draws the outcome of its round trip from        *)
(* Outcomes.  The variable call records the last call made on the client:  *)
(* its inputs, the requests it put on the wire and what it returned.       *)
(***************************************************************************)
EXTENDS Integers, Sequences, FiniteSets, TLC

VARIABLES apiKey, call

vars == <<apiKey, call>>

(* ---------------------------------------------------------------- bounds *)

MaxIdLen == 1

(* ------------------------------------------------------------- strings *)

Range(s) == {s[i] : i \in 1..Len(s)}

EmptyString == <<>>

IdAlphabet == {"4", "&"}

RECURSIVE StringsUpTo(_)
StringsUpTo(n) ==
  IF n = 0 THEN {<<>>}
  ELSE LET shorter == StringsUpTo(n - 1)
       IN  shorter \cup {Append(s, c) : s \in shorter, c \in IdAlphabet}

SatelliteIDs == StringsUpTo(MaxIdLen)

ApiKeys == {EmptyString, <<"s3cr3t">>}

(* First index of lexeme x in s, 0 when absent. *)
RECURSIVE IndexFrom(_, _, _)
IndexFrom(s, x, i) ==
  IF i > Len(s) THEN 0
  ELSE IF s[i] = x THEN i
  ELSE IndexFrom(s, x, i + 1)

Index(s, x) == IndexFrom(s, x, 1)

(* strings.Split on a one-lexeme separator. *)
RECURSIVE Split(_, _)
Split(s, sep) ==
  LET i == Index(s, sep)
  IN  IF i = 0 THEN <<s>>
      ELSE <<SubSeq(s, 1, i - 1)>> \o Split(SubSeq(s, i + 1, Len(s)), sep)

RECURSIVE Join(_, _)
Join(parts, sep) ==
  IF parts = <<>> THEN <<>>
  ELSE IF Len(parts) = 1 THEN parts[1]
  ELSE parts[1] \o <<sep>> \o Join(Tail(parts), sep)

(* ----------------------------------------------------------------- URLs *)

baseURL == <<"https:", "//", "db.satnogs.org", "/api">>

TelemetryEndpoint == <<"/telemetry/">>

BadEndpoint == <<"/telemetry/", "%zz">>

SchemeLexemes == {"https:", "http:"}

HostLexemes == {"db.satnogs.org", "evil.example"}

InvalidEscapes == {"%zz"}

(* net/url.Parse: scheme, "//" authority, path, then the query after the   *)
(* first "?".  An invalid percent-escape before the "?" is an error; the   *)
(* raw query is kept as written and is not validated.                      *)
Parse(s) ==
  LET hasScheme == Len(s) >= 1 /\ s[1] \in SchemeLexemes
      r1 == IF hasScheme THEN Tail(s) ELSE s
      hasAuth == Len(r1) >= 1 /\ r1[1] = "//"
      r2 == IF hasAuth THEN Tail(r1) ELSE r1
      hasHost == hasAuth /\ Len(r2) >= 1 /\ r2[1] \in HostLexemes
      r3 == IF hasHost THEN Tail(r2) ELSE r2
      q == Index(r3, "?")
      path == IF q = 0 THEN r3 ELSE SubSeq(r3, 1, q - 1)
      rawq == IF q = 0 THEN <<>> ELSE SubSeq(r3, q + 1, Len(r3))
  IN  [ok |-> Range(path) \cap InvalidEscapes = {},
       url |-> [Scheme |-> IF hasScheme THEN <<s[1]>> ELSE <<>>,
                Host |-> IF hasHost THEN <<r2[1]>> ELSE <<>>,
                Path |-> path,
                ForceQuery |-> q # 0 /\ rawq = <<>>,
                RawQuery |-> rawq]]

(* URL.String *)
String(u) ==
  u.Scheme
    \o (IF u.Host # <<>> \/ u.Scheme \in {<<"https:">>, <<"http:">>} THEN <<"//">> ELSE <<>>)
    \o u.Host
    \o u.Path
    \o (IF u.ForceQuery \/ u.RawQuery # <<>> THEN <<"?">> ELSE <<>>)
    \o u.RawQuery

(* ------------------------------------------------------ query strings *)

EscapeLexeme(c) ==
  CASE c = "&" -> "%26"
    [] c = "+" -> "%2B"
    [] c = "=" -> "%3D"
    [] c = " " -> "+"
    [] OTHER -> c

UnescapeLexeme(c) ==
  CASE c = "%26" -> "&"
    [] c = "%2B" -> "+"
    [] c = "%3D" -> "="
    [] c = "+" -> " "
    [] OTHER -> c

(* url.QueryEscape *)
QueryEscape(s) == [i \in 1..Len(s) |-> EscapeLexeme(s[i])]

(* url.QueryUnescape *)
QueryUnescape(s) == [i \in 1..Len(s) |-> UnescapeLexeme(s[i])]

(* url.ParseQuery: pairs in order of appearance, each split at its first   *)
(* "=", key and value unescaped; empty pieces are skipped.                 *)
RECURSIVE ParsePieces(_)
ParsePieces(pieces) ==
  IF pieces = <<>> THEN <<>>
  ELSE LET p == pieces[1]
           e == Index(p, "=")
           k == IF e = 0 THEN p ELSE SubSeq(p, 1, e - 1)
           v == IF e = 0 THEN <<>> ELSE SubSeq(p, e + 1, Len(p))
       IN  (IF p = <<>> THEN <<>>
            ELSE <<[Key |-> QueryUnescape(k), Value |-> QueryUnescape(v)]>>)
           \o ParsePieces(Tail(pieces))

ParseQuery(raw) == ParsePieces(Split(raw, "&"))

(* URL.Query *)
Query(u) == ParseQuery(u.RawQuery)

(* Values.Add *)
Add(q, key, value) == Append(q, [Key |-> key, Value |-> value])

(* Values.Get-all: the values stored under key, in order. *)
RECURSIVE ValuesOf(_, _)
ValuesOf(q, key) ==
  IF q = <<>> THEN <<>>
  ELSE (IF q[1].Key = key THEN <<q[1].Value>> ELSE <<>>) \o ValuesOf(Tail(q), key)

(* The keys the model uses, in the byte order Values.Encode sorts them. *)
SortedKeys == << <<"format">>, <<"k">>, <<"page">>, <<"sat_id">> >>

RECURSIVE EncodeKeys(_, _)
EncodeKeys(q, keys) ==
  IF keys = <<>> THEN <<>>
  ELSE LET vs == ValuesOf(q, keys[1])
       IN  [i \in 1..Len(vs) |-> QueryEscape(keys[1]) \o <<"=">> \o QueryEscape(vs[i])]
           \o EncodeKeys(q, Tail(keys))

(* Values.Encode: sorted by key, values of one key in insertion order. *)
Encode(q) == Join(EncodeKeys(q, SortedKeys), "&")

(* ----------------------------------------------------------------- HTTP *)

NoHeader == <<>>

(* http.Header.Set: replaces every value stored under name by the one value. *)
HeaderSet(h, name, value) ==
  Append(SelectSeq(h, LAMBDA e : e.name # name), [name |-> name, value |-> value])

(* The values a header carries under name, in order. *)
HeaderValues(h, name) ==
  LET hs == SelectSeq(h, LAMBDA e : e.name = name)
  IN  [i \in 1..Len(hs) |-> hs[i].value]

(* http.NewRequest: parses the target; the request starts without headers. *)
NewRequest(method, target) ==
  LET p == Parse(target)
  IN  [ok |-> p.ok, req |-> [Method |-> method, URL |-> p.url, Header |-> NoHeader]]

(* The header written whatever the key is. *)
SetAuthorizationAlways(key, req) ==
  [req EXCEPT !.Header = HeaderSet(req.Header, "Authorization", <<"Token ">> \o key)]

(* "Add authorization header if API key is set" *)
SetAuthorization(key, req) ==
  IF key # EmptyString
  THEN [req EXCEPT !.Header = HeaderSet(req.Header, "Authorization", <<"Token ">> \o key)]
  ELSE req

(* ----------------------------------------------------------------- JSON *)

JAbsent(zero) == [present |-> FALSE, val |-> zero]

JVal(v) == [present |-> TRUE, val |-> v]

(* One element of "results" as the server writes it. *)
TelemetryObject ==
  [sat_id |-> "43770", norad_cat_id |-> 43770, transmitter |-> "tx",
   app_source |-> "network", decoded |-> "", frame |-> "C0FFEE", observer |-> "obs",
   timestamp |-> "2023-01-01T00:00:00Z", version |-> "", observation_id |-> 1,
   station_id |-> 1]

(* The json tags of Telemetry. *)
DecodeTelemetry(o) ==
  [SatID |-> o.sat_id, NoradCatID |-> o.norad_cat_id, Transmitter |-> o.transmitter,
   AppSource |-> o.app_source, Decoded |-> o.decoded, Frame |-> o.frame,
   Observer |-> o.observer, Timestamp |-> o.timestamp, Version |-> o.version,
   ObservationID |-> o.observation_id, StationID |-> o.station_id]

NilSlice == [isNil |-> TRUE, elems |-> <<>>]

Slice(s) == [isNil |-> FALSE, elems |-> s]

(* A nil *TelemetryResponse. *)
NilPage == [isNil |-> TRUE, Next |-> EmptyString, Prev |-> EmptyString, Results |-> NilSlice]

(* The pagination links a server may write: none, the page-2 link of the   *)
(* API, and a link to another host.                                        *)
ApiLink == baseURL \o <<"/telemetry/", "?", "sat_id", "=", "X", "&", "page", "=", "2">>

ForeignLink == <<"https:", "//", "evil.example", "/telemetry/", "?", "page", "=", "2">>

Links == {EmptyString, ApiLink, ForeignLink}

(* A link that is no URL: its path holds an invalid percent-escape. *)
BadLink == baseURL \o <<"/telemetry/", "%zz">>

ResultArrays == {<<>>, <<TelemetryObject>>}

(* The body {"results": cut off after the colon. *)
TruncatedBody ==
  [wellFormed |-> FALSE, next |-> JAbsent(<<>>), prev |-> JAbsent(<<>>),
   results |-> JAbsent(<<>>)]

(* A JSON object without any of the three keys, such as {"detail": "..."}. *)
DetailBody ==
  [wellFormed |-> TRUE, next |-> JAbsent(<<>>), prev |-> JAbsent(<<>>),
   results |-> JAbsent(<<>>)]

(* A page whose two links are both malformed. *)
BadLinksBody ==
  [wellFormed |-> TRUE, next |-> JVal(BadLink), prev |-> JVal(BadLink),
   results |-> JVal(<<TelemetryObject>>)]

PageBodies ==
  {[wellFormed |-> TRUE, next |-> JVal(n), prev |-> JVal(p), results |-> JVal(r)] :
     n \in Links, p \in Links, r \in ResultArrays}

Bodies == {TruncatedBody, DetailBody, BadLinksBody} \cup PageBodies

StatusCodes == {200, 500}

NoResponse == [isNil |-> TRUE, StatusCode |-> 0, Body |-> TruncatedBody, closes |-> 0]

(* What one round trip ends in: a transport failure, or a response. *)
TransportFailure == [ok |-> FALSE, StatusCode |-> 0, Body |-> TruncatedBody]

Outcomes ==
  {TransportFailure} \cup
  {[ok |-> TRUE, StatusCode |-> s, Body |-> b] : s \in StatusCodes, b \in Bodies}

(* A client that sends the request again when the transport fails. *)
DoWithRetry(req, outcome) ==
  [reqs |-> IF outcome.ok THEN <<req>> ELSE <<req, req>>,
   resp |-> IF outcome.ok
            THEN [isNil |-> FALSE, StatusCode |-> outcome.StatusCode,
                  Body |-> outcome.Body, closes |-> 0]
            ELSE NoResponse,
   err |-> IF outcome.ok THEN "nil" ELSE "NetworkError"]

(* (http.Client).Do: one request on the wire, its response or its error. *)
Do(req, outcome) ==
  [reqs |-> <<req>>,
   resp |-> IF outcome.ok
            THEN [isNil |-> FALSE, StatusCode |-> outcome.StatusCode,
                  Body |-> outcome.Body, closes |-> 0]
            ELSE NoResponse,
   err |-> IF outcome.ok THEN "nil" ELSE "NetworkError"]

DecodedPage(b) ==
  [isNil |-> FALSE,
   Next |-> IF b.next.present THEN b.next.val ELSE EmptyString,
   Prev |-> IF b.prev.present THEN b.prev.val ELSE EmptyString,
   Results |-> IF b.results.present
               THEN Slice([i \in 1..Len(b.results.val) |-> DecodeTelemetry(b.results.val[i])])
               ELSE NilSlice]

(* A decoder that treats a status of 400 and above as a failure. *)
DecodeCheckingStatus(resp) ==
  IF ~resp.Body.wellFormed \/ resp.StatusCode >= 400
  THEN [ok |-> FALSE, value |-> NilPage]
  ELSE [ok |-> TRUE, value |-> DecodedPage(resp.Body)]

(* json.NewDecoder(resp.Body).Decode(&telemetryResponse): a key that is    *)
(* absent leaves the zero value of its field.                              *)
Decode(resp) ==
  IF ~resp.Body.wellFormed
  THEN [ok |-> FALSE, value |-> NilPage]
  ELSE [ok |-> TRUE, value |-> DecodedPage(resp.Body)]

(* The decode tail returning what was decoded so far next to the error. *)
DecodeAndClosePartial(sent) ==
  LET d == Decode(sent.resp)
      closed == [sent.resp EXCEPT !.closes = @ + 1]
  IN  IF ~d.ok
      THEN [reqs |-> sent.reqs, resp |-> closed, page |-> DecodedPage(sent.resp.Body),
            err |-> "DecodeError"]
      ELSE [reqs |-> sent.reqs, resp |-> closed, page |-> d.value, err |-> "nil"]

(* The decode tail closing the body on the successful return only. *)
DecodeAndCloseOnSuccessOnly(sent) ==
  LET d == Decode(sent.resp)
      closed == [sent.resp EXCEPT !.closes = @ + 1]
  IN  IF ~d.ok
      THEN [reqs |-> sent.reqs, resp |-> sent.resp, page |-> NilPage, err |-> "DecodeError"]
      ELSE [reqs |-> sent.reqs, resp |-> closed, page |-> d.value, err |-> "nil"]

(* defer resp.Body.Close(), decode, return: the tail shared by the four    *)
(* decoding operations.  The deferred Close runs on both returns.          *)
DecodeAndClose(sent) ==
  LET d == Decode(sent.resp)
      closed == [sent.resp EXCEPT !.closes = @ + 1]
  IN  IF ~d.ok
      THEN [reqs |-> sent.reqs, resp |-> closed, page |-> NilPage, err |-> "DecodeError"]
      ELSE [reqs |-> sent.reqs, resp |-> closed, page |-> d.value, err |-> "nil"]

(* The early return of an operation whose request failed. *)
Failed(sent) == [reqs |-> sent.reqs, resp |-> sent.resp, page |-> NilPage, err |-> sent.err]

(* What follows the request in the decoding operations: return the error   *)
(* of the request, or defer the Close, decode and return.                  *)
AfterRequest(sent) ==
  IF sent.err # "nil" THEN Failed(sent)
  ELSE DecodeAndClose(sent)

(* The results of a page, or the error, as GetTelemetry returns them. *)
ResultsOnly(r) ==
  IF r.err # "nil"
  THEN [reqs |-> r.reqs, resp |-> r.resp, results |-> NilSlice, err |-> r.err]
  ELSE [reqs |-> r.reqs, resp |-> r.resp, results |-> r.page.Results, err |-> "nil"]

(* ------------------------------------------------------------ the client *)

NewClient(key) == [baseURL |-> baseURL, apiKey |-> key]

RECURSIVE AddAll(_, _)
AddAll(q, params) ==
  IF params = <<>> THEN q
  ELSE AddAll(Add(q, params[1].Key, params[1].Value), Tail(params))

(* The request Get builds from the parsed URL, and its round trip. *)
GetParsed(c, u, params, outcome) ==
  LET nr == NewRequest("GET", String([u EXCEPT !.RawQuery = Encode(AddAll(Query(u), params))]))
  IN  IF ~nr.ok THEN [reqs |-> <<>>, resp |-> NoResponse, err |-> "UrlError"]
      ELSE Do(SetAuthorization(c.apiKey, nr.req), outcome)

Get(c, endpoint, params, outcome) ==
  LET p == Parse(c.baseURL \o endpoint)
  IN  IF ~p.ok THEN [reqs |-> <<>>, resp |-> NoResponse, err |-> "UrlError"]
      ELSE GetParsed(c, p.url, params, outcome)

(* The first-page parameters without the format. *)
TelemetryParamsWithoutFormat(satelliteID) ==
  <<[Key |-> <<"sat_id">>, Value |-> satelliteID]>>

TelemetryParams(satelliteID) ==
  <<[Key |-> <<"sat_id">>, Value |-> satelliteID],
    [Key |-> <<"format">>, Value |-> <<"json">>]>>

GetTelemetryResponse(c, satelliteID, outcome) ==
  AfterRequest(Get(c, TelemetryEndpoint, TelemetryParams(satelliteID), outcome))

(* GetTelemetry of the paginated source: the first page's results. *)
GetTelemetry(c, satelliteID, outcome) ==
  ResultsOnly(GetTelemetryResponse(c, satelliteID, outcome))

(* GetTelemetry of client.go: request, decode and close in one function. *)
GetTelemetryClientGo(c, satelliteID, outcome) ==
  ResultsOnly(AfterRequest(Get(c, TelemetryEndpoint, TelemetryParams(satelliteID), outcome)))

(* A forward walker that rebuilds the query of the link the way Get does. *)
NextPageReencodingQuery(c, t, outcome) ==
  LET p == Parse(t.Next)
      nr == NewRequest("GET", String([p.url EXCEPT !.RawQuery = Encode(Query(p.url))]))
  IN  IF t.Next = EmptyString
      THEN [reqs |-> <<>>, resp |-> NoResponse, page |-> NilPage, err |-> "nil"]
      ELSE IF ~nr.ok
      THEN [reqs |-> <<>>, resp |-> NoResponse, page |-> NilPage, err |-> "UrlError"]
      ELSE AfterRequest(Do(SetAuthorization(c.apiKey, nr.req), outcome))

GetTelemetryResponseNextPage(c, t, outcome) ==
  LET nr == NewRequest("GET", t.Next)
  IN  IF t.Next = EmptyString
      THEN [reqs |-> <<>>, resp |-> NoResponse, page |-> NilPage, err |-> "nil"]
      ELSE IF ~nr.ok
      THEN [reqs |-> <<>>, resp |-> NoResponse, page |-> NilPage, err |-> "UrlError"]
      ELSE AfterRequest(Do(SetAuthorization(c.apiKey, nr.req), outcome))

(* A backward walker that follows the link without looking at it first. *)
PrevPageWithoutEmptyCheck(c, t, outcome) ==
  LET nr == NewRequest("GET", t.Prev)
  IN  IF ~nr.ok
      THEN [reqs |-> <<>>, resp |-> NoResponse, page |-> NilPage, err |-> "UrlError"]
      ELSE AfterRequest(Do(SetAuthorization(c.apiKey, nr.req), outcome))

(* A backward walker that also stops when the supplied page has no results. *)
PrevPageStoppingOnEmptyResults(c, t, outcome) ==
  LET nr == NewRequest("GET", t.Prev)
  IN  IF t.Prev = EmptyString \/ t.Results.elems = <<>>
      THEN [reqs |-> <<>>, resp |-> NoResponse, page |-> NilPage, err |-> "nil"]
      ELSE IF ~nr.ok
      THEN [reqs |-> <<>>, resp |-> NoResponse, page |-> NilPage, err |-> "UrlError"]
      ELSE AfterRequest(Do(SetAuthorization(c.apiKey, nr.req), outcome))

GetTelemetryResponsePrevPage(c, t, outcome) ==
  LET nr == NewRequest("GET", t.Prev)
  IN  IF t.Prev = EmptyString
      THEN [reqs |-> <<>>, resp |-> NoResponse, page |-> NilPage, err |-> "nil"]
      ELSE IF ~nr.ok
      THEN [reqs |-> <<>>, resp |-> NoResponse, page |-> NilPage, err |-> "UrlError"]
      ELSE AfterRequest(Do(SetAuthorization(c.apiKey, nr.req), outcome))

(* ------------------------------------------------------------ the calls *)

Endpoints == {TelemetryEndpoint, BadEndpoint}

ParamChoices ==
  {<<>>,
   <<[Key |-> <<"k">>, Value |-> <<"&">>], [Key |-> <<"k">>, Value |-> <<"4">>]>>}

(* What a caller sees of one call: the inputs, the requests the call put   *)
(* on the wire, the response it obtained (with the number of times its     *)
(* body was closed inside the call) and the values returned.               *)
Record(op, satelliteID, endpoint, params, t, reqs, resp, page, results, err) ==
  [op |-> op, satelliteID |-> satelliteID, endpoint |-> endpoint, params |-> params,
   t |-> t, reqs |-> reqs, resp |-> resp, page |-> page, results |-> results,
   err |-> err]

Init ==
  /\ apiKey \in ApiKeys
  /\ call = Record("NewClient", EmptyString, EmptyString, <<>>, NilPage, <<>>,
                   NoResponse, NilPage, NilSlice, "nil")

Call_Get ==
  \E e \in Endpoints, ps \in ParamChoices, o \in Outcomes :
    \E r \in {Get(NewClient(apiKey), e, ps, o)} :
        /\ call' = Record("Get", EmptyString, e, ps, NilPage, r.reqs, r.resp,
                          NilPage, NilSlice, r.err)
        /\ UNCHANGED apiKey

Call_GetTelemetry ==
  \E s \in SatelliteIDs, o \in Outcomes :
    \E r \in {GetTelemetry(NewClient(apiKey), s, o)} :
        /\ call' = Record("GetTelemetry", s, EmptyString, <<>>, NilPage, r.reqs,
                          r.resp, NilPage, r.results, r.err)
        /\ UNCHANGED apiKey

Call_GetTelemetryClientGo ==
  \E s \in SatelliteIDs, o \in Outcomes :
    \E r \in {GetTelemetryClientGo(NewClient(apiKey), s, o)} :
        /\ call' = Record("GetTelemetryClientGo", s, EmptyString, <<>>, NilPage,
                          r.reqs, r.resp, NilPage, r.results, r.err)
        /\ UNCHANGED apiKey

Call_GetTelemetryResponse ==
  \E s \in SatelliteIDs, o \in Outcomes :
    \E r \in {GetTelemetryResponse(NewClient(apiKey), s, o)} :
        /\ call' = Record("GetTelemetryResponse", s, EmptyString, <<>>, NilPage,
                          r.reqs, r.resp, r.page, NilSlice, r.err)
        /\ UNCHANGED apiKey

(* The caller passes the page the previous call returned. *)
Call_GetTelemetryResponseNextPage ==
  /\ ~call.page.isNil
  /\ \E o \in Outcomes :
       \E r \in {GetTelemetryResponseNextPage(NewClient(apiKey), call.page, o)} :
           /\ call' = Record("GetTelemetryResponseNextPage", EmptyString, EmptyString,
                             <<>>, call.page, r.reqs, r.resp, r.page, NilSlice, r.err)
           /\ UNCHANGED apiKey

Call_GetTelemetryResponsePrevPage ==
  /\ ~call.page.isNil
  /\ \E o \in Outcomes :
       \E r \in {GetTelemetryResponsePrevPage(NewClient(apiKey), call.page, o)} :
           /\ call' = Record("GetTelemetryResponsePrevPage", EmptyString, EmptyString,
                             <<>>, call.page, r.reqs, r.resp, r.page, NilSlice, r.err)
           /\ UNCHANGED apiKey

Next ==
  \/ Call_Get
  \/ Call_GetTelemetry
  \/ Call_GetTelemetryClientGo
  \/ Call_GetTelemetryResponse
  \/ Call_GetTelemetryResponseNextPage
  \/ Call_GetTelemetryResponsePrevPage

Spec == Init /\ [][Next]_vars

(* =============================================================== claims *)

NextPageOp == "GetTelemetryResponseNextPage"

PrevPageOp == "GetTelemetryResponsePrevPage"

WalkerOps == {NextPageOp, PrevPageOp}

FirstPageOps == {"GetTelemetry", "GetTelemetryClientGo", "GetTelemetryResponse"}

PageOps == {"GetTelemetryResponse"} \cup WalkerOps

DecodingOps == FirstPageOps \cup WalkerOps

(* The link of the supplied page that the last walker call was about. *)
FollowedLink == IF call.op = NextPageOp THEN call.t.Next ELSE call.t.Prev

ApiHost == <<"db.satnogs.org">>

(* C1: a walker given a page whose link (Next for the forward walker, Prev  *)
(* for the backward one) is empty returns a nil page and a nil error and    *)
(* issues no HTTP request.                                                  *)
C1_EmptyLinkIsTerminal ==
  call.op \in WalkerOps /\ FollowedLink = EmptyString
    => call.page.isNil /\ call.err = "nil" /\ call.reqs = <<>>

C1_Witness ==
  /\ call.op = PrevPageOp
  /\ call.t.Prev = EmptyString
  /\ call.t.Next # EmptyString
  /\ call.page.isNil
  /\ call.reqs = <<>>

(* C2: a walker given a non-empty link that is a URL issues one GET whose   *)
(* target, written back as a string, is exactly that link: base URL and     *)
(* endpoint are not used, the query is as the server wrote it, and the      *)
(* other link of the page is not the one requested.  No walker request      *)
(* ever has another target.                                                 *)
C2_LinkFollowedVerbatim ==
  call.op \in WalkerOps =>
    /\ \A i \in 1..Len(call.reqs) :
         call.reqs[i].Method = "GET" /\ String(call.reqs[i].URL) = FollowedLink
    /\ (FollowedLink # EmptyString /\ Parse(FollowedLink).ok => Len(call.reqs) = 1)

C2_Witness ==
  /\ call.op = NextPageOp
  /\ call.t.Next = ApiLink
  /\ call.t.Prev = ForeignLink
  /\ Len(call.reqs) = 1
  /\ String(call.reqs[1].URL) = ApiLink
  /\ ~call.page.isNil

(* C3: every request of every operation carries no Authorization header     *)
(* when the API key is empty, and exactly one, "Token " followed by the key, *)
(* when it is not.                                                           *)
C3_AuthorizationHeader ==
  \A i \in 1..Len(call.reqs) :
    HeaderValues(call.reqs[i].Header, "Authorization")
      = IF apiKey = EmptyString THEN <<>> ELSE << <<"Token ">> \o apiKey >>

C3_Witness ==
  /\ call.op = NextPageOp
  /\ apiKey = EmptyString
  /\ Len(call.reqs) = 1
  /\ call.reqs[1].Header = NoHeader

(* C4: a first-page fetch sends its one request to /telemetry/ under the    *)
(* base URL, and the query of that request, parsed as the server parses it, *)
(* holds sat_id equal to the satellite id and format equal to json.         *)
C4_FirstPageQuery ==
  call.op \in FirstPageOps =>
    /\ Len(call.reqs) = 1
    /\ LET u == call.reqs[1].URL
           q == ParseQuery(u.RawQuery)
       IN  /\ String([u EXCEPT !.RawQuery = <<>>]) = baseURL \o TelemetryEndpoint
           /\ ValuesOf(q, <<"sat_id">>) = <<call.satelliteID>>
           /\ ValuesOf(q, <<"format">>) = << <<"json">> >>

C4_Witness ==
  /\ call.op = "GetTelemetryClientGo"
  /\ call.satelliteID = <<"&">>
  /\ Len(call.reqs) = 1
  /\ call.reqs[1].URL.RawQuery = <<"format", "=", "json", "&", "sat_id", "=", "%26">>

(* C5: a response whose body does not decode makes every decoding operation *)
(* return an error with a nil page (a nil slice for GetTelemetry); a page   *)
(* operation never returns a page next to an error, and returns neither     *)
(* only in the terminal outcome of a walker.                                *)
C5_NoPartialResult ==
  call.op \in DecodingOps =>
    /\ (~call.resp.isNil /\ ~call.resp.Body.wellFormed
          => call.err # "nil" /\ call.page.isNil /\ call.results.isNil)
    /\ (call.err # "nil" => call.page.isNil /\ call.results.isNil)
    /\ (call.op \in PageOps /\ call.err = "nil" /\ call.page.isNil
          => call.op \in WalkerOps /\ FollowedLink = EmptyString)

C5_Witness ==
  /\ call.op = "GetTelemetryResponse"
  /\ ~call.resp.isNil
  /\ call.resp.Body = TruncatedBody
  /\ call.err = "DecodeError"
  /\ call.page.isNil

(* C6 as stated: every invocation issues exactly one HTTP request. *)
C6_ExactlyOneRequest ==
  call.op # "NewClient" => Len(call.reqs) = 1

(* C6, amended: every invocation issues at most one HTTP request: none when *)
(* the walker's link is empty or the URL does not parse, one otherwise; a   *)
(* request that fails at the transport level is not issued again.           *)
C6_AtMostOneRequest ==
  call.op # "NewClient" =>
    /\ Len(call.reqs) <= 1
    /\ (call.reqs = <<>>
          <=> \/ call.err = "UrlError"
              \/ call.op \in WalkerOps /\ FollowedLink = EmptyString)
    /\ (call.err = "NetworkError" => Len(call.reqs) = 1 /\ call.resp.isNil)

C6_Witness ==
  /\ call.op = "GetTelemetry"
  /\ call.err = "NetworkError"
  /\ Len(call.reqs) = 1

(* C7: a walker call without error yields a nil page only if the followed   *)
(* link is empty, and yields a page whenever the link is not empty and the  *)
(* response decodes, whatever the results arrays hold.                      *)
C7_LinkIsSoleTermination ==
  call.op \in WalkerOps =>
    /\ (call.err = "nil" /\ call.page.isNil => FollowedLink = EmptyString)
    /\ (FollowedLink # EmptyString /\ ~call.resp.isNil /\ call.resp.Body.wellFormed
          => call.err = "nil" /\ ~call.page.isNil)
    /\ (FollowedLink # EmptyString /\ Parse(FollowedLink).ok => call.reqs # <<>>)

C7_Witness ==
  /\ call.op = PrevPageOp
  /\ call.t.Prev # EmptyString
  /\ call.t.Results.elems = <<>>
  /\ call.err = "nil"
  /\ ~call.page.isNil
  /\ call.page.Results.elems = <<>>

(* C8: the status code decides nothing: Get returns every response it       *)
(* obtained with a nil error, and a page operation that obtained a response *)
(* with a well-formed body returns the page of that body with a nil error,  *)
(* whatever the status; its errors are URL, transport and decode failures.  *)
C8_StatusNotInterpreted ==
  /\ (call.op = "Get" /\ ~call.resp.isNil => call.err = "nil")
  /\ (call.op \in PageOps /\ ~call.resp.isNil /\ call.resp.Body.wellFormed
        => call.err = "nil" /\ call.page = DecodedPage(call.resp.Body))
  /\ (call.op \in PageOps /\ call.err # "nil" =>
        \/ call.err = "UrlError" /\ call.reqs = <<>>
        \/ call.err = "NetworkError" /\ call.resp.isNil
        \/ call.err = "DecodeError" /\ ~call.resp.isNil /\ ~call.resp.Body.wellFormed)

C8_Witness ==
  /\ call.op = "GetTelemetryResponse"
  /\ ~call.resp.isNil
  /\ call.resp.StatusCode = 500
  /\ call.err = "nil"
  /\ call.page.Next = ApiLink

(* A link that is empty or an absolute URL on the API host. *)
LinkOnApiHost(link) ==
  \/ link = EmptyString
  \/ LET p == Parse(link)
     IN  p.ok /\ p.url.Scheme # <<>> /\ p.url.Host = ApiHost

(* C9: every page returned has links that are empty or absolute URLs on the *)
(* API host, and every request, with the Authorization header it carries,   *)
(* goes to the API host.                                                    *)
C9_LinksStayOnApiHost ==
  /\ (call.op \in PageOps /\ ~call.page.isNil
        => LinkOnApiHost(call.page.Next) /\ LinkOnApiHost(call.page.Prev))
  /\ \A i \in 1..Len(call.reqs) : call.reqs[i].URL.Host = ApiHost

(* C10: a decoding operation that obtained a response has closed its body   *)
(* exactly once when it returns, after a decode failure as after a          *)
(* success; without a response nothing is closed.                           *)
C10_BodyClosedOnce ==
  call.op \in DecodingOps =>
    /\ (~call.resp.isNil => call.resp.closes = 1)
    /\ (call.resp.isNil => call.resp.closes = 0)

C10_Witness ==
  /\ call.op = NextPageOp
  /\ ~call.resp.isNil
  /\ call.err = "DecodeError"
  /\ call.resp.closes = 1

====
